---- MODULE Spec2Model ----
(***************************************************************************)
(* A model of meteo_proxy: the TTL cache (services/cache.py, a             *)
(* cachetools.TTLCache behind CacheService), the Open-Meteo client         *)
(* (services/open_meteo.py) and the weather service that composes them     *)
(* (services/weather.py).                                                  *)
(*                                                                         *)
(* Time is time.monotonic() counted in whole ticks.  A coordinate          *)
(* component is a float counted in units of 1e-4 degree.                   *)
(***************************************************************************)
EXTENDS Integers, Sequences, FiniteSets, TLC

(***************************************************************************)
(* Bounds of the model.                                                    *)
(***************************************************************************)
\* Settings.cache_ttl_seconds, in ticks
Ttl == 2
\* Settings.cache_max_size
MaxSize == 2
\* the clock stops advancing here
MaxTime == 3
\* at most this many Cache.get calls in a behaviour (the hit and miss
\* counters are unbounded in the program)
MaxGets == 2

VARIABLES
    now,               \* time.monotonic() / datetime.now(UTC)
    links,             \* TTLCache: entries in the order of its __links
    cache_hits,        \* Counter cache_hits_total
    cache_misses,      \* Counter cache_misses_total
    cache_size_gauge,  \* Gauge cache_size
    task,              \* per request task: where it is in its call, and the outcome
    upstream_calls,    \* requests that reached the upstream endpoint
    upstream_requests, \* Counter upstream_requests_total, by status label
    upstream_duration, \* Histogram upstream_request_duration_seconds: observations
    last,              \* history: the last operation on the cache, and
                       \* what it returned or pushed out
    standing,          \* history: the insertions not yet overwritten, evicted
                       \* for size or cleared, oldest first
    recent,            \* history: their keys, least recently set or hit first
    cache_service,     \* dependencies._cache_service: 0 for None, else an instance
    created,           \* CacheService instances created so far
    dep,               \* per worker thread: where it is in get_cache_service
    conns,             \* the calls whose httpx.AsyncClient is open
    waited             \* per call: ticks since the upstream last sent anything

cacheVars ==
    <<links, cache_hits, cache_misses, cache_size_gauge, standing, recent>>
clientVars == <<upstream_calls, upstream_requests, upstream_duration>>
depVars == <<cache_service, created, dep>>
vars == <<now, cacheVars, task, clientVars, last, depVars, conns, waited>>

(***************************************************************************)
(* Option values: Python's None and a present value.                       *)
(***************************************************************************)
None == <<>>
Some(v) == <<v>>

(***************************************************************************)
(* Coordinates.  No component of the domain is a decimal tie (a multiple   *)
(* of 0.005 that is not one of 0.01), where round() depends on the binary  *)
(* expansion of the float.                                                 *)
(***************************************************************************)
Coords ==
    { <<525234, 134156>>, <<525244, 134199>>,
      <<-4, 134156>>, <<4, 134156>>, <<10000, 10000>> }

Abs(x) == IF x < 0 THEN -x ELSE x

\* round(x, 2) of a float: the sign bit is kept (round(-0.0004, 2) is -0.0),
\* the magnitude goes to the nearest hundredth.
Round2(x) == [neg |-> x < 0, cents |-> (Abs(x) + 50) \div 100]

\* The number a rounded float denotes, in hundredths: -0.0 and 0.0 are equal.
FloatValue(r) == IF r.neg THEN 0 - r.cents ELSE r.cents

\* f"{r}" of a float: its repr, which writes the sign bit ("-0.0" and "0.0")
\* and is otherwise one string per number.
FormatFloat(r) == <<IF r.neg THEN "-" ELSE "", r.cents>>

\* CacheService._make_key
make_key(lat, lon) ==
    <<"weather", FormatFloat(Round2(lat)), FormatFloat(Round2(lon))>>

KeyOf(c) == make_key(c[1], c[2])

(***************************************************************************)
(* cachetools.TTLCache(maxsize, ttl) as CacheService uses it.  links is    *)
(* the cache's __links: one entry per stored key, least recently used      *)
(* first; an entry is expired once not (time < expires).                   *)
(***************************************************************************)
HasLink(l, key) == \E i \in 1..Len(l) : l[i].key = key

LinkOf(l, key) == l[CHOOSE i \in 1..Len(l) : l[i].key = key]

\* mutant: an entry still counts at the instant its time is up
UnexpiredInclusive(e, time) == time <= e.expires

Unexpired(e, time) == time < e.expires

DropKey(l, key) == SelectSeq(l, LAMBDA e : e.key # key)

\* TTLCache.expire(time)
Expire(l, time) == SelectSeq(l, LAMBDA e : Unexpired(e, time))

\* the entries the cache stores, each with its record and its expiry instant
Entries(l) == { l[i] : i \in 1..Len(l) }

\* TTLCache.__contains__
Contains(l, key, time) == HasLink(l, key) /\ Unexpired(LinkOf(l, key), time)

\* mutant: a hit leaves the order of __links alone
TouchInPlace(l, key) == l

\* mutant: a hit restarts the entry's time to live
TouchRenewing(l, key) ==
    Append(DropKey(l, key), [LinkOf(l, key) EXCEPT !.expires = now + Ttl])

\* TTLCache.__getitem__ of a key it contains: __getlink moves the link to
\* the end of __links
Touch(l, key) == Append(DropKey(l, key), LinkOf(l, key))

\* TTLCache.popitem: expire, then drop the first link of __links
Popitem(l, time) == Tail(Expire(l, time))

\* mutant: a cache that never makes room for a new key
MakeRoomNever(l, time) == l

\* Cache.__setitem__'s loop: while currsize + size > maxsize: popitem()
RECURSIVE MakeRoom(_, _)
MakeRoom(l, time) ==
    IF Len(l) + 1 > MaxSize /\ Len(l) > 0
        THEN MakeRoom(Popitem(l, time), time)
        ELSE l

\* mutant: a set that links the key once more without unlinking it first
SetItemTwice(l, key, value, time) ==
    Append(Expire(l, time),
           [key |-> key, value |-> value, expires |-> time + Ttl])

\* mutant: a set that leaves an unexpired entry of the key as it is
SetItemKeepFirst(l, key, value, time) ==
    LET live == Expire(l, time)
    IN  IF HasLink(live, key)
            THEN live
            ELSE Append(MakeRoom(live, time),
                        [key |-> key, value |-> value, expires |-> time + Ttl])

\* mutant: a set that makes room even for a key the cache holds
SetItemAlwaysRoom(l, key, value, time) ==
    Append(DropKey(MakeRoom(Expire(l, time), time), key),
           [key |-> key, value |-> value, expires |-> time + Ttl])

\* mutant: a set into a cache that stores max-size entries drops the first
\* of them before it looks at their time
SetItemEvictFirst(l, key, value, time) ==
    LET room == IF HasLink(l, key) \/ Len(l) < MaxSize THEN l ELSE Tail(l)
    IN  Append(DropKey(Expire(room, time), key),
               [key |-> key, value |-> value, expires |-> time + Ttl])

\* TTLCache.__setitem__: expire, make room for a new key, then (re)link the
\* key at the end with expires = time + ttl
SetItem(l, key, value, time) ==
    LET live == Expire(l, time)
        room == IF HasLink(live, key) THEN live ELSE MakeRoom(live, time)
    IN  Append(DropKey(room, key),
               [key |-> key, value |-> value, expires |-> time + Ttl])

\* mutant: a clear that drops only the entries whose time is up
ClearExpiredOnly(l, time) == Expire(l, time)

\* TTLCache.clear, inherited from MutableMapping: popitem() until KeyError
RECURSIVE ClearAll(_, _)
ClearAll(l, time) ==
    IF Expire(l, time) = <<>>
        THEN Expire(l, time)
        ELSE ClearAll(Popitem(l, time), time)

\* len(TTLCache): expire, then count
CacheLen(l, time) == Len(Expire(l, time))

\* CacheService.size
size == CacheLen(links, now)

\* mutant: a cache without entries is reported as not healthy
is_healthyNonEmpty == CacheLen(links, now) > 0

\* CacheService.is_healthy: what it returns
is_healthy == CacheLen(links, now) \in Nat

\* What CacheService.get returns for a coordinate in the current state.
Lookup(c) ==
    IF Contains(links, KeyOf(c), now)
        THEN Some(LinkOf(links, KeyOf(c)).value)
        ELSE None

(***************************************************************************)
(* Records the cache holds.                                                *)
(***************************************************************************)
WeatherResponse(lat, lon, temp, wind, at) ==
    [location |-> <<lat, lon>>, temperatureC |-> temp, windSpeedKmh |-> wind,
     source |-> "open-meteo", retrievedAt |-> at]

\* the values the cache's own tests store, as records
Berlin == WeatherResponse(525200, 134100, 105, 0, 0)
London == WeatherResponse(515000, 1200, 50, 0, 0)

\* what the direct calls of CacheService.set store: either record under the
\* tests' coordinates, one record elsewhere
Stores ==
    { <<c, Berlin>> : c \in Coords }
    \cup { <<c, London>> : c \in {<<525234, 134156>>, <<525244, 134199>>} }

(***************************************************************************)
(* History kept beside the cache, to state what it promises: which         *)
(* insertions still stand, and in which order their keys were last used.   *)
(* An insertion whose time is up leaves the history when the cache drops   *)
(* it: from then on its key is absent until the next set of it.            *)
(***************************************************************************)
\* the keys a set pushed out for size: unexpired before it, gone after it
PushedOut(before, after, time) ==
    { before[i].key : i \in { j \in 1..Len(before) :
          Unexpired(before[j], time) /\ ~HasLink(after, before[j].key) } }

\* whether insertion h still stands after a set of key that leaves the
\* cache as after: it was not overwritten, not pushed out for size (unexpired
\* before the set, gone after it), and not dropped after its time was up
Stands(h, key, after) ==
    /\ h.key # key
    /\ \/ HasLink(after, h.key)
       \/ now - h.at < Ttl /\ ~Contains(links, h.key, now)

(***************************************************************************)
(* Operations of CacheService.                                             *)
(***************************************************************************)
\* mutant: a get that finds the key in __links without looking at its time
CacheService_getAnyLink(c) ==
    /\ links' = links
    /\ cache_hits' = cache_hits + (IF HasLink(links, KeyOf(c)) THEN 1 ELSE 0)
    /\ cache_misses' = cache_misses + (IF HasLink(links, KeyOf(c)) THEN 0 ELSE 1)
    /\ UNCHANGED <<cache_size_gauge, standing, recent>>

\* mutant: a hit is counted and returned but is no use of the entry
CacheService_getNoUse(c) ==
    /\ links' = links
    /\ cache_hits' = cache_hits + (IF Contains(links, KeyOf(c), now) THEN 1 ELSE 0)
    /\ cache_misses' = cache_misses + (IF Contains(links, KeyOf(c), now) THEN 0 ELSE 1)
    /\ recent' = IF Contains(links, KeyOf(c), now)
                     THEN Append(SelectSeq(recent, LAMBDA k : k # KeyOf(c)),
                                 KeyOf(c))
                     ELSE recent
    /\ UNCHANGED <<cache_size_gauge, standing>>

\* CacheService.get(lat, lon): its effect on the cache and its counters
CacheService_get(c) ==
    IF Contains(links, KeyOf(c), now)
        THEN /\ links' = Touch(links, KeyOf(c))
             /\ cache_hits' = cache_hits + 1
             /\ cache_misses' = cache_misses
             /\ recent' = Append(SelectSeq(recent, LAMBDA k : k # KeyOf(c)),
                                 KeyOf(c))
             /\ UNCHANGED <<cache_size_gauge, standing>>
        ELSE /\ links' = links
             /\ cache_hits' = cache_hits
             /\ cache_misses' = cache_misses + 1
             /\ UNCHANGED <<cache_size_gauge, standing, recent>>

\* mutant: the gauge is set from the count taken before the insertion
CacheService_setGaugeFirst(c, v) ==
    \E stored \in {SetItem(links, KeyOf(c), v, now)} :
    \E kept \in {SelectSeq(standing, LAMBDA h : Stands(h, KeyOf(c), stored))} :
        /\ links' = Expire(stored, now)
        /\ cache_size_gauge' = CacheLen(links, now)
        /\ standing' = Append(kept, [key |-> KeyOf(c), value |-> v, at |-> now])
        /\ recent' = Append(SelectSeq(recent, LAMBDA k : HasLink(kept, k)),
                            KeyOf(c))
        /\ UNCHANGED <<cache_hits, cache_misses>>

\* CacheService.set(lat, lon, value); len() for the gauge expires as well
CacheService_set(c, v) ==
    \E stored \in {SetItem(links, KeyOf(c), v, now)} :
    \E kept \in {SelectSeq(standing, LAMBDA h : Stands(h, KeyOf(c), stored))} :
        /\ links' = Expire(stored, now)
        /\ cache_size_gauge' = CacheLen(stored, now)
        /\ standing' = Append(kept, [key |-> KeyOf(c), value |-> v, at |-> now])
        /\ recent' = Append(SelectSeq(recent, LAMBDA k : HasLink(kept, k)),
                            KeyOf(c))
        /\ UNCHANGED <<cache_hits, cache_misses>>

\* CacheService.clear()
CacheService_clear ==
    /\ links' = ClearAll(links, now)
    /\ cache_size_gauge' = 0
    /\ standing' = <<>>
    /\ recent' = <<>>
    /\ UNCHANGED <<cache_hits, cache_misses>>

(***************************************************************************)
(* The upstream's answers and the JSON they carry.  A JSON number is       *)
(* [num |-> n], null is JNull, an object is a function on its keys.        *)
(***************************************************************************)
Num(n) == [num |-> n]
JNull == [null |-> TRUE]
IsNum(v) == "num" \in DOMAIN v

Restrict(f, S) == [k \in S |-> f[k]]

GoodCurrent == [temperature_2m |-> Num(155), wind_speed_10m |-> Num(123)]

\* the payload of the tests: 52.52, 13.41, 15.5 C, 12.3 km/h
GoodPayload ==
    [latitude |-> Num(525200), longitude |-> Num(134100), current |-> GoodCurrent]

\* the upstream answers for its own grid point, which rounds to another key
SnappedPayload ==
    [latitude |-> Num(525000), longitude |-> Num(134000), current |-> GoodCurrent]

\* every way of leaving parts of the payload out
PartialPayloads ==
    { Restrict(GoodPayload, K) : K \in SUBSET {"latitude", "longitude", "current"} }
    \cup { [GoodPayload EXCEPT !.current = Restrict(GoodCurrent, K)] :
             K \in SUBSET {"temperature_2m", "wind_speed_10m"} }
    \cup { [Restrict(GoodPayload, K \cup {"current"}) EXCEPT !.current = cur] :
             K \in SUBSET {"latitude", "longitude"},
             cur \in {JNull, Restrict(GoodCurrent, {})} }

\* parts present but null, or a latitude off the globe
BadValuePayloads ==
    { [GoodPayload EXCEPT !.latitude = JNull],
      [GoodPayload EXCEPT !.latitude = Num(910000)],
      [GoodPayload EXCEPT !.current = [GoodCurrent EXCEPT !.temperature_2m = JNull]] }

Payloads == PartialPayloads \cup BadValuePayloads \cup {SnappedPayload}

JsonBody(data) == [json |-> data]
TextBody == [text |-> "Internal Server Error"]
IsJson(body) == "json" \in DOMAIN body

TimedOut == [kind |-> "timeout"]
TransportFailure == [kind |-> "transport"]
Http(status, body) == [kind |-> "http", status_code |-> status, body |-> body]

\* what one request to the upstream can end in
Responses ==
    {TimedOut, TransportFailure}
    \cup { Http(200, JsonBody(d)) : d \in Payloads }
    \cup { Http(s, b) : s \in {201, 500}, b \in {TextBody, JsonBody(GoodPayload)} }
    \cup { Http(200, TextBody) }

(***************************************************************************)
(* Outcomes of a call: a value or a raised exception.                      *)
(***************************************************************************)
Ok(v) == [ok |-> TRUE, value |-> v]
Raise(e) == [ok |-> FALSE, error |-> e]

\* OpenMeteoTimeoutError
OpenMeteoTimeoutError ==
    [cls |-> "OpenMeteoTimeoutError", msg |-> "Open-Meteo API request timed out"]

\* OpenMeteoAPIError(message, status_code); the message quotes the body
OpenMeteoAPIError(status, body) ==
    [cls |-> "OpenMeteoAPIError", msg |-> "Open-Meteo API returned",
     status_code |-> status, text |-> body]

\* OpenMeteoError, the base class, raised with a message
OpenMeteoError(msg) == [cls |-> "OpenMeteoError", msg |-> msg]

\* what Response.json() raises on a body that is not JSON
JSONDecodeError == [cls |-> "JSONDecodeError", msg |-> "Expecting value"]

\* what pydantic raises when a model's field is not valid
ValidationError == [cls |-> "ValidationError", msg |-> "validation error"]

\* mutant: a parse that fills a missing section or number with zero
parse_responseDefaulting(data) ==
    IF ~("latitude" \in DOMAIN data) \/ ~("longitude" \in DOMAIN data)
        THEN Raise(OpenMeteoError("Missing required coordinate fields in response"))
    ELSE LET current == IF "current" \in DOMAIN data THEN data.current ELSE JNull
             field(k) == IF k \in DOMAIN current THEN current[k] ELSE Num(0)
         IN  Ok([latitude |-> data.latitude,
                 longitude |-> data.longitude,
                 temperature_c |-> field("temperature_2m"),
                 wind_speed_kmh |-> field("wind_speed_10m")])

\* OpenMeteoClient._parse_response
parse_response(data) ==
    IF ~("latitude" \in DOMAIN data) \/ ~("longitude" \in DOMAIN data)
        THEN Raise(OpenMeteoError("Missing required coordinate fields in response"))
    ELSE LET current == IF "current" \in DOMAIN data THEN data.current ELSE JNull
         IN  IF current = JNull
                 THEN Raise(OpenMeteoError("Missing 'current' field in response"))
             ELSE IF ~("temperature_2m" \in DOMAIN current)
                     \/ ~("wind_speed_10m" \in DOMAIN current)
                 THEN Raise(OpenMeteoError(
                          "Missing required weather data in 'current' field"))
             ELSE Ok([latitude |-> data.latitude,
                      longitude |-> data.longitude,
                      temperature_c |-> current.temperature_2m,
                      wind_speed_kmh |-> current.wind_speed_10m])

\* mutant: the handler of RequestError placed before that of its subclass
\* TimeoutException
get_current_weatherRequestErrorFirst(r) ==
    IF r.kind \in {"timeout", "transport"}
        THEN Raise(OpenMeteoError("Open-Meteo API request failed"))
    ELSE IF r.status_code # 200
        THEN Raise(OpenMeteoAPIError(r.status_code, r.body))
    ELSE IF ~IsJson(r.body) THEN Raise(JSONDecodeError)
    ELSE parse_response(r.body.json)

\* OpenMeteoClient.get_current_weather, from the answer to its request on
get_current_weather(r) ==
    IF r.kind = "timeout" THEN Raise(OpenMeteoTimeoutError)
    ELSE IF r.kind = "transport"
        THEN Raise(OpenMeteoError("Open-Meteo API request failed"))
    ELSE IF r.status_code # 200
        THEN Raise(OpenMeteoAPIError(r.status_code, r.body))
    ELSE IF ~IsJson(r.body) THEN Raise(JSONDecodeError)
    ELSE parse_response(r.body.json)

\* the label get_current_weather counts the request under
StatusLabel(r) ==
    IF r.kind = "timeout" THEN "timeout"
    ELSE IF r.kind = "transport" THEN "error"
    ELSE IF r.status_code # 200 THEN "error"
    ELSE "success"

\* upstream_requests.labels(status=...).inc() and the histogram's timer
CountRequest(r) ==
    /\ upstream_requests' =
           [upstream_requests EXCEPT ![StatusLabel(r)] = @ + 1]
    /\ upstream_duration' = upstream_duration + 1

(***************************************************************************)
(* WeatherService.get_weather.  A call runs from its start to the await on *)
(* the upstream request without yielding, and from the answer to its       *)
(* return without yielding.                                                *)
(***************************************************************************)
Tasks == {"t1", "t2"}

\* the threads of the pool that run the dependencies declared with def
Workers == {"w1", "w2", "w3"}

\* the coordinates requests ask for
Places == { <<525234, 134156>>, <<525244, 134199>>, <<10000, 10000>> }

\* the answers the upstream gives to the service's requests: one per outcome
Upstream ==
    { TimedOut, TransportFailure, Http(500, TextBody), Http(200, TextBody),
      Http(200, JsonBody(GoodPayload)), Http(200, JsonBody(SnappedPayload)),
      Http(200, JsonBody(Restrict(GoodPayload, {"latitude", "longitude"}))),
      Http(200, JsonBody([GoodPayload EXCEPT !.latitude = JNull])) }

NoResponse == [kind |-> "none"]
NoResult == [pending |-> TRUE]

\* Location and CurrentWeather accept a number, Location only within range
ValidLat(v) == IsNum(v) /\ v.num >= -900000 /\ v.num <= 900000
ValidLon(v) == IsNum(v) /\ v.num >= -1800000 /\ v.num <= 1800000

\* the WeatherResponse get_weather builds from the client's result
BuildResponse(u, at) ==
    IF /\ ValidLat(u.latitude)
       /\ ValidLon(u.longitude)
       /\ IsNum(u.temperature_c)
       /\ IsNum(u.wind_speed_kmh)
        THEN Ok(WeatherResponse(u.latitude.num, u.longitude.num,
                                u.temperature_c.num, u.wind_speed_kmh.num, at))
        ELSE Raise(ValidationError)

\* mutant: a failed fetch is papered over with a record of defaults
OutcomeWithFallback(r, at) ==
    IF get_current_weather(r).ok
        THEN BuildResponse(get_current_weather(r).value, at)
        ELSE Ok(WeatherResponse(0, 0, 0, 0, at))

\* get_weather's outcome once the upstream has answered r
Outcome(r, at) ==
    IF get_current_weather(r).ok
        THEN BuildResponse(get_current_weather(r).value, at)
        ELSE get_current_weather(r)

\* mutant: a call starts only while no other call waits for the upstream
IdleExclusive(t) ==
    /\ task[t].pc \in {"idle", "done"}
    /\ \A u \in Tasks : task[u].pc # "await"

\* whether task t can take a new call
Idle(t) == task[t].pc \in {"idle", "done"}

\* mutant: a call that misses while another call for the same key is waiting
\* waits for that call's answer instead of sending a request
GetWeatherCallCoalescing(t, c) ==
    /\ Idle(t)
    /\ cache_hits + cache_misses < MaxGets
    /\ CacheService_get(c)
    /\ IF Contains(links, KeyOf(c), now)
         THEN /\ task' = [task EXCEPT ![t] =
                    [pc |-> "done", arg |-> c, reqs |-> 0, hit |-> TRUE,
                     resp |-> NoResponse, out |-> Ok(Lookup(c)[1])]]
              /\ upstream_calls' = upstream_calls
              /\ last' = [ev |-> "hit", t |-> t, arg |-> c]
         ELSE /\ \E shared \in {\E u \in Tasks :
                       task[u].pc = "await" /\ KeyOf(task[u].arg) = KeyOf(c)} :
                    /\ task' = [task EXCEPT ![t] =
                           [pc |-> "await", arg |-> c,
                            reqs |-> IF shared THEN 0 ELSE 1, hit |-> FALSE,
                            resp |-> NoResponse, out |-> NoResult]]
                    /\ upstream_calls' =
                           upstream_calls + (IF shared THEN 0 ELSE 1)
              /\ last' = [ev |-> "miss", t |-> t, arg |-> c]
    /\ conns' = IF Contains(links, KeyOf(c), now) THEN conns ELSE conns \cup {t}
    /\ waited' = [waited EXCEPT ![t] = 0]
    /\ UNCHANGED <<now, upstream_requests, upstream_duration, depVars>>

\* get_weather(lat, lon) up to its return on a hit or its await on a miss
GetWeatherCall(t, c) ==
    /\ Idle(t)
    /\ cache_hits + cache_misses < MaxGets
    /\ CacheService_get(c)
    /\ IF Contains(links, KeyOf(c), now)
         THEN /\ task' = [task EXCEPT ![t] =
                    [pc |-> "done", arg |-> c, reqs |-> 0, hit |-> TRUE,
                     resp |-> NoResponse, out |-> Ok(Lookup(c)[1])]]
              /\ upstream_calls' = upstream_calls
              /\ last' = [ev |-> "hit", t |-> t, arg |-> c]
         ELSE /\ task' = [task EXCEPT ![t] =
                    [pc |-> "await", arg |-> c, reqs |-> 1, hit |-> FALSE,
                     resp |-> NoResponse, out |-> NoResult]]
              /\ upstream_calls' = upstream_calls + 1
              /\ last' = [ev |-> "miss", t |-> t, arg |-> c]
    /\ conns' = IF Contains(links, KeyOf(c), now) THEN conns ELSE conns \cup {t}
    /\ waited' = [waited EXCEPT ![t] = 0]
    /\ UNCHANGED <<now, upstream_requests, upstream_duration, depVars>>

\* mutant: the record is cached under the coordinate the upstream returned
CachedUnderUpstream(t, r) == Outcome(r, now).value.location

\* the coordinate get_weather hands to cache.set: the one it was called with
CachedUnder(t, r) == task[t].arg

\* get_weather after a fetch that gave a valid record: cache it, return it
Stored(t, r) ==
    /\ task' = [task EXCEPT ![t].pc = "done", ![t].resp = r,
                            ![t].out = Outcome(r, now)]
    /\ CacheService_set(CachedUnder(t, r), Outcome(r, now).value)
    /\ last' = [ev |-> "stored", t |-> t, arg |-> task[t].arg]
    /\ UNCHANGED upstream_calls

\* mutant: a failed fetch is tried once more before giving up
FailedRetrying(t, r) ==
    /\ IF task[t].reqs < 2
         THEN /\ task' = [task EXCEPT ![t].reqs = @ + 1]
              /\ upstream_calls' = upstream_calls + 1
         ELSE /\ task' = [task EXCEPT ![t].pc = "done", ![t].resp = r,
                                      ![t].out = Outcome(r, now)]
              /\ upstream_calls' = upstream_calls
    /\ UNCHANGED <<cacheVars, last>>

\* mutant: a failed fetch leaves a record of defaults in the cache
FailedStoring(t, r) ==
    /\ task' = [task EXCEPT ![t].pc = "done", ![t].resp = r,
                            ![t].out = Outcome(r, now)]
    /\ CacheService_set(task[t].arg, WeatherResponse(0, 0, 0, 0, now))
    /\ UNCHANGED <<last, upstream_calls>>

\* get_weather after a fetch or a validation that raised: the exception
\* leaves get_weather as it is
Failed(t, r) ==
    /\ task' = [task EXCEPT ![t].pc = "done", ![t].resp = r,
                            ![t].out = Outcome(r, now)]
    /\ last' = IF last = [ev |-> "miss", t |-> t, arg |-> task[t].arg]
                 THEN [ev |-> "failed", t |-> t, arg |-> task[t].arg]
                 ELSE last
    /\ UNCHANGED <<cacheVars, upstream_calls>>

\* the rest of get_weather, from the upstream's answer r to the return
GetWeatherResume(t, r) ==
    /\ task[t].pc = "await"
    /\ CountRequest(r)
    /\ IF Outcome(r, now).ok THEN Stored(t, r) ELSE Failed(t, r)
    /\ conns' = conns \ {t}
    /\ UNCHANGED <<now, depVars, waited>>

(***************************************************************************)
(* OpenMeteoClient.get_current_weather called on its own.                  *)
(***************************************************************************)
\* at most this many direct calls of the client in a behaviour
MaxFetch == 2

FetchCall(t, c) ==
    /\ Idle(t)
    /\ upstream_calls < MaxFetch
    /\ task' = [task EXCEPT ![t] =
           [pc |-> "await", arg |-> c, reqs |-> 1, hit |-> FALSE,
            resp |-> NoResponse, out |-> NoResult]]
    /\ upstream_calls' = upstream_calls + 1
    /\ conns' = conns \cup {t}
    /\ waited' = [waited EXCEPT ![t] = 0]
    /\ UNCHANGED <<now, cacheVars, upstream_requests, upstream_duration, last,
                   depVars>>

FetchReturn(t, r) ==
    /\ task[t].pc = "await"
    /\ CountRequest(r)
    /\ task' = [task EXCEPT ![t].pc = "done", ![t].resp = r,
                            ![t].out = get_current_weather(r)]
    /\ conns' = conns \ {t}
    /\ UNCHANGED <<now, cacheVars, upstream_calls, last, depVars, waited>>

(***************************************************************************)
(* Specifications.                                                         *)
(***************************************************************************)
\* the clock advances
Tick ==
    /\ now < MaxTime
    /\ now' = now + 1
    /\ UNCHANGED <<cacheVars, task, clientVars, last, depVars, conns, waited>>

Init ==
    /\ now = 0
    /\ links = <<>>
    /\ cache_hits = 0
    /\ cache_misses = 0
    /\ cache_size_gauge = 0
    /\ task = [t \in Tasks |->
           [pc |-> "idle", arg |-> <<0, 0>>, reqs |-> 0, hit |-> FALSE,
            resp |-> NoResponse, out |-> NoResult]]
    /\ upstream_calls = 0
    /\ upstream_requests = [l \in {"success", "error", "timeout"} |-> 0]
    /\ upstream_duration = 0
    /\ last = [ev |-> "none"]
    /\ standing = <<>>
    /\ recent = <<>>
    /\ cache_service = 0
    /\ created = 0
    /\ dep = [w \in Workers |-> [pc |-> "idle", got |-> 0]]
    /\ conns = {}
    /\ waited = [t \in Tasks |-> 0]

\* CacheService.get called directly
DirectGet(c) ==
    /\ cache_hits + cache_misses < MaxGets
    /\ CacheService_get(c)
    /\ last' = [ev |-> "get", ret |-> Lookup(c)]
    /\ UNCHANGED <<now, task, clientVars, depVars, conns, waited>>

\* CacheService.set called directly
DirectSet(c, v) ==
    /\ CacheService_set(c, v)
    /\ last' = [ev |-> "set", pushed |-> PushedOut(links, links', now)]
    /\ UNCHANGED <<now, task, clientVars, depVars, conns, waited>>

Get == \E c \in Coords : DirectGet(c)

Set == \E s \in Stores : DirectSet(s[1], s[2])

\* CacheService.clear called directly
Clear ==
    /\ CacheService_clear
    /\ last' = [ev |-> "clear", held |-> size]
    /\ UNCHANGED <<now, task, clientVars, depVars, conns, waited>>

NextCache == Get \/ Set \/ Clear \/ Tick

\* CacheService driven directly, as its tests drive it
SpecCache == Init /\ [][NextCache]_vars

Call == \E t \in Tasks, c \in Places : GetWeatherCall(t, c)

Resume == \E t \in Tasks, r \in Upstream : GetWeatherResume(t, r)

Next == Call \/ Resume \/ Tick

\* the weather service serving requests
Spec == Init /\ [][Next]_vars

Fetch == \E t \in Tasks, c \in Places : FetchCall(t, c)

Return == \E t \in Tasks, r \in Responses : FetchReturn(t, r)

NextClient == Fetch \/ Return

\* the client driven directly, as its tests drive it
SpecClient == Init /\ [][NextClient]_vars

(***************************************************************************)
(* The weather endpoint: GET /api/v1/weather?lat=..&lon=..                 *)
(***************************************************************************)
\* what FastAPI raises when a query parameter is missing or out of range
RequestValidationError ==
    [cls |-> "RequestValidationError", msg |-> "query parameter not valid"]

\* the query strings requests come with: a function on the parameters given
Queries ==
    { [lat |-> 525234, lon |-> 134156],
      [lat |-> 900000, lon |-> -1800000],
      [lat |-> 910000, lon |-> 134100],
      [lat |-> -900001, lon |-> 134100],
      [lat |-> 525200, lon |-> 1810000],
      [lat |-> 525200, lon |-> -1800001],
      [lat |-> 525200],
      [lon |-> 134100],
      Restrict([lat |-> 0], {}) }

\* mutant: the endpoint only asks for both parameters, not for their ranges
ValidQueryAnyRange(q) == {"lat", "lon"} \subseteq DOMAIN q

\* lat: Query(ge=-90, le=90), lon: Query(ge=-180, le=180), both required
ValidQuery(q) ==
    /\ {"lat", "lon"} \subseteq DOMAIN q
    /\ q.lat >= -900000 /\ q.lat <= 900000
    /\ q.lon >= -1800000 /\ q.lon <= 1800000

\* the request is answered by FastAPI; the endpoint's body never runs
Rejected(t, q) ==
    /\ Idle(t)
    /\ task' = [task EXCEPT ![t] =
           [pc |-> "done", arg |-> <<0, 0>>, reqs |-> 0, hit |-> FALSE,
            resp |-> NoResponse, out |-> Raise(RequestValidationError)]]
    /\ UNCHANGED <<now, cacheVars, clientVars, last, depVars, conns, waited>>

\* a request arrives at the endpoint
WeatherRequest(t, q) ==
    IF ValidQuery(q)
        THEN GetWeatherCall(t, <<q.lat, q.lon>>)
        ELSE Rejected(t, q)

\* mutant: the handler of OpenMeteoError placed before those of its
\* subclasses
weather_endpointBaseFirst(out) ==
    IF out.ok THEN [status_code |-> 200, body |-> out.value]
    ELSE IF out.error.cls \in {"OpenMeteoError", "OpenMeteoTimeoutError",
                               "OpenMeteoAPIError"}
        THEN [status_code |-> 502, code |-> "UPSTREAM_ERROR",
              message |-> "Open-Meteo API request failed"]
    ELSE IF out.error.cls = "RequestValidationError"
        THEN [status_code |-> 422, code |-> "", message |-> out.error.msg]
    ELSE [status_code |-> 500, code |-> "", message |-> "Internal Server Error"]

\* the HTTP answer of routes.get_weather to what the call ended in; an
\* exception it does not handle is answered 500 by the server
weather_endpoint(out) ==
    IF out.ok THEN [status_code |-> 200, body |-> out.value]
    ELSE IF out.error.cls = "OpenMeteoTimeoutError"
        THEN [status_code |-> 504, code |-> "UPSTREAM_TIMEOUT",
              message |-> "Open-Meteo API request timed out"]
    ELSE IF out.error.cls = "OpenMeteoAPIError"
        THEN [status_code |-> 502, code |-> "UPSTREAM_ERROR",
              message |-> "Open-Meteo API error"]
    ELSE IF out.error.cls = "OpenMeteoError"
        THEN [status_code |-> 502, code |-> "UPSTREAM_ERROR",
              message |-> "Open-Meteo API request failed"]
    ELSE IF out.error.cls = "RequestValidationError"
        THEN [status_code |-> 422, code |-> "", message |-> out.error.msg]
    ELSE [status_code |-> 500, code |-> "", message |-> "Internal Server Error"]

\* the answer to task t's request, once it is done
Reply(t) == weather_endpoint(task[t].out)

Request == \E t \in Tasks, q \in Queries : WeatherRequest(t, q)

NextApi == Request \/ Resume \/ Tick

\* the service behind its endpoint
SpecApi == Init /\ [][NextApi]_vars

(***************************************************************************)
(* The readiness endpoint: GET /health/ready                               *)
(***************************************************************************)
\* what len(self._cache) in is_healthy does to the cache: TTLCache.__len__
\* expires before it counts
CacheService_is_healthy ==
    /\ links' = Expire(links, now)
    /\ UNCHANGED <<cache_hits, cache_misses, cache_size_gauge, standing, recent>>

\* routes.readiness: the answer to what is_healthy returned
readiness(healthy) ==
    IF healthy
        THEN [status_code |-> 200, status |-> "ok", cache |-> "ok"]
        ELSE [status_code |-> 503, status |-> "unhealthy", cache |-> "unhealthy"]

\* a readiness probe
Ready ==
    /\ CacheService_is_healthy
    /\ last' = [ev |-> "ready", reply |-> readiness(is_healthy)]
    /\ UNCHANGED <<now, task, clientVars, depVars, conns, waited>>

\* the coordinates the probed cache is filled with: one per key
HealthCoords == { <<525234, 134156>>, <<-4, 134156>>, <<10000, 10000>> }

Fill == \E c \in HealthCoords : DirectSet(c, Berlin)

Look == \E c \in HealthCoords : DirectGet(c)

NextHealth == Look \/ Fill \/ Clear \/ Tick \/ Ready

\* the cache driven directly and probed for readiness
SpecHealth == Init /\ [][NextHealth]_vars

(***************************************************************************)
(* dependencies.get_cache_service.  It is declared with def, so each       *)
(* request runs it on a thread of the pool, and threads interleave between *)
(* its statements.                                                         *)
(***************************************************************************)
\* if _cache_service is None
DepCheck(w) ==
    /\ dep[w].pc \in {"idle", "served"}
    /\ dep' = [dep EXCEPT ![w].pc =
                   IF cache_service = 0 THEN "create" ELSE "return"]
    /\ UNCHANGED <<cache_service, created>>

\* _cache_service = CacheService(settings)
DepCreate(w) ==
    /\ dep[w].pc = "create"
    /\ created' = created + 1
    /\ cache_service' = created + 1
    /\ dep' = [dep EXCEPT ![w].pc = "return"]

\* return _cache_service: the request is served by this instance
DepReturn(w) ==
    /\ dep[w].pc = "return"
    /\ dep' = [dep EXCEPT ![w] = [pc |-> "served", got |-> cache_service]]
    /\ UNCHANGED <<cache_service, created>>

get_cache_service(w) ==
    /\ DepCheck(w) \/ DepCreate(w) \/ DepReturn(w)
    /\ UNCHANGED <<now, cacheVars, task, clientVars, last, conns, waited>>

NextDeps == \E w \in Workers : get_cache_service(w)

\* requests resolving their cache dependency
SpecDeps == Init /\ [][NextDeps]_vars

\* a record is put in the cache before the first request comes
Warm ==
    /\ last.ev = "none"
    /\ DirectSet(<<525234, 134156>>, Berlin)

NextBusy == Warm \/ Call \/ Resume \/ Tick

\* the weather service serving requests, its cache already in use
SpecBusy == Init /\ [][NextBusy]_vars

\* CacheService.get called directly for a coordinate requests ask for
Peek == \E c \in {<<525234, 134156>>, <<10000, 10000>>} : DirectGet(c)

NextHits == Warm \/ Peek \/ Call \/ Resume \/ Tick

\* the cache read both directly and through the weather service
SpecHits == Init /\ [][NextHits]_vars

\* what the sets of a cache in use store: a record under each key, and
\* another record under a second coordinate of the first key
Puts ==
    { <<c, Berlin>> : c \in Coords \ {<<525244, 134199>>} }
    \cup { <<<<525244, 134199>>, London>> }

\* CacheService.set called directly by a user of the cache; what the cache
\* held for the set is kept: whether the key had an unexpired entry, how
\* many stored entries had their time up, which entries were pushed out
Put(c, v) ==
    /\ CacheService_set(c, v)
    /\ last' = [ev |-> "put", over |-> Contains(links, KeyOf(c), now),
                 dropped |-> Len(links) - size,
                 pushed |-> { e \in Entries(links) :
                                 e.key \in PushedOut(links, links', now) }]
    /\ UNCHANGED <<now, task, clientVars, depVars, conns, waited>>

Store == \E s \in Puts : Put(s[1], s[2])

\* CacheService.get called directly for a coordinate the cache has an
\* unexpired entry for
Use ==
    \E c \in {<<525234, 134156>>, <<10000, 10000>>} :
        Contains(links, KeyOf(c), now) /\ DirectGet(c)

NextLru == Store \/ Use \/ Tick

\* the cache filling up, read and ageing
SpecLru == Init /\ [][NextLru]_vars

(***************************************************************************)
(* Cancellation of a request task while its fetch is in flight.            *)
(***************************************************************************)
\* asyncio.CancelledError, raised at the await the task is suspended at
CancelledError == [cls |-> "CancelledError", msg |-> ""]

\* mutant: the cancelled call's client is left open
CancelLeaking(t) ==
    /\ task[t].pc = "await"
    /\ task' = [task EXCEPT ![t].pc = "done", ![t].out = Raise(CancelledError)]
    /\ upstream_duration' = upstream_duration + 1
    /\ UNCHANGED <<now, cacheVars, upstream_calls, upstream_requests, last,
                   depVars, conns, waited>>

\* the task is cancelled at client.get: the exception leaves the async with
\* block, which closes the client, then the timer's with block, which
\* records the duration, then get_current_weather and get_weather; no
\* except clause catches it
Cancel(t) ==
    /\ task[t].pc = "await"
    /\ task' = [task EXCEPT ![t].pc = "done", ![t].out = Raise(CancelledError)]
    /\ conns' = conns \ {t}
    /\ upstream_duration' = upstream_duration + 1
    /\ UNCHANGED <<now, cacheVars, upstream_calls, upstream_requests, last,
                   depVars, waited>>

Cancelled == \E t \in Tasks : Cancel(t)

NextCancel == Call \/ Resume \/ Cancelled \/ Tick

\* the weather service serving requests that may be cancelled
SpecCancel == Init /\ [][NextCancel]_vars

(***************************************************************************)
(* The request in flight.  httpx.AsyncClient(timeout=t) bounds each wait   *)
(* for the upstream (connect, write, read of the next bytes, pool) by t,   *)
(* not the request as a whole.                                             *)
(***************************************************************************)
\* Settings.upstream_timeout_seconds, in ticks
UpstreamTimeout == 1

\* a tick passes without anything from the upstream
Wait(t) ==
    /\ task[t].pc = "await"
    /\ waited[t] < UpstreamTimeout
    /\ waited' = [waited EXCEPT ![t] = @ + 1]
    /\ UNCHANGED <<now, cacheVars, task, clientVars, last, depVars, conns>>

\* the upstream sends a part of its answer: the wait starts anew
Chunk(t) ==
    /\ task[t].pc = "await"
    /\ waited[t] > 0
    /\ waited' = [waited EXCEPT ![t] = 0]
    /\ UNCHANGED <<now, cacheVars, task, clientVars, last, depVars, conns>>

\* the answer is complete, or the transport fails
Answer(t, r) ==
    /\ r # TimedOut
    /\ GetWeatherResume(t, r)

\* a wait has lasted the timeout: httpx raises TimeoutException
TimeoutFires(t) ==
    /\ waited[t] = UpstreamTimeout
    /\ GetWeatherResume(t, TimedOut)

Waiting == \E t \in Tasks : Wait(t)

Sending == \E t \in Tasks : Chunk(t)

Answered == \E t \in Tasks, r \in Upstream : Answer(t, r)

Expired == \E t \in Tasks : TimeoutFires(t)

NextLive == Call \/ Waiting \/ Sending \/ Answered \/ Expired

\* the service with its requests in flight; time passes and a timeout that
\* is due fires, the upstream sends what and when it likes
SpecLive ==
    /\ Init
    /\ [][NextLive]_vars
    /\ \A t \in Tasks : WF_vars(Wait(t)) /\ WF_vars(TimeoutFires(t))

(***************************************************************************)
(* Properties.                                                             *)
(***************************************************************************)
LookupKey(key) ==
    IF Contains(links, key, now) THEN Some(LinkOf(links, key).value) ELSE None

Done(t) == task[t].pc = "done"

\* C1: when the last thing that happened to the cache is a get_weather call
\* storing the record it fetched, a get_weather call with the same
\* coordinate made less than ttl after it returns at once with that very
\* record, retrieval timestamp included, and sends nothing to the upstream.
C1_SecondCallHits ==
    [][\A t \in Tasks, c \in Places :
          ( /\ last.ev = "stored"
            /\ last.arg = c
            /\ now - task[last.t].out.value.retrievedAt < Ttl
            /\ GetWeatherCall(t, c) )
          => /\ task'[t].pc = "done"
             /\ task'[t].out = task[last.t].out
             /\ task'[t].reqs = 0
             /\ upstream_calls' = upstream_calls]_vars

\* two calls, one upstream request, the same record twice, time having passed
C1_Witness ==
    \E t1, t2 \in Tasks :
        /\ t1 # t2 /\ Done(t1) /\ Done(t2)
        /\ ~task[t1].hit /\ task[t1].out.ok
        /\ task[t2].hit /\ task[t2].arg = task[t1].arg
        /\ task[t2].out = task[t1].out
        /\ now > task[t1].out.value.retrievedAt
        /\ upstream_calls = 1
        /\ SnappedPayload = task[t1].resp.body.json

\* C2: when the fetch of a get_weather call fails, the call ends with the
\* error the client raised and the cache, its counters included, is as it
\* was; and a get_weather call for that coordinate that comes next misses
\* and sends a request to the upstream.
C2_FailureWritesNothing ==
    [][\A t \in Tasks :
          /\ \A r \in Upstream :
                ( ~get_current_weather(r).ok /\ GetWeatherResume(t, r) )
                => /\ task'[t].pc = "done"
                   /\ task'[t].out = get_current_weather(r)
                   /\ UNCHANGED cacheVars
          /\ \A c \in Places :
                ( last.ev = "failed" /\ last.arg = c /\ GetWeatherCall(t, c) )
                => /\ task'[t].pc = "await"
                   /\ upstream_calls' = upstream_calls + 1]_vars

\* a call failed on a timeout, nothing is cached, and the next call for the
\* coordinate is waiting for the upstream
C2_Witness ==
    \E t1, t2 \in Tasks :
        /\ Done(t1) /\ task[t1].out = Raise(OpenMeteoTimeoutError)
        /\ task[t2].pc = "await" /\ task[t2].arg = task[t1].arg
        /\ last = [ev |-> "miss", t |-> t2, arg |-> task[t2].arg]
        /\ links = <<>>
        /\ upstream_calls = 2

\* C3: a get_weather call sends at most one request to the upstream: none
\* when it returned from the cache, one when it missed, whatever the
\* request ended in; so the requests sent are as many as the cache misses.
C3_AtMostOneRequest ==
    /\ \A t \in Tasks :
          /\ task[t].reqs <= 1
          /\ task[t].pc = "await" => task[t].reqs = 1
          /\ Done(t) => task[t].reqs = IF task[t].hit THEN 0 ELSE 1
    /\ upstream_calls = cache_misses

\* a call that missed and failed, after one request
C3_Witness ==
    \E t \in Tasks :
        /\ Done(t) /\ ~task[t].hit /\ ~task[t].out.ok
        /\ task[t].reqs = 1 /\ upstream_calls = 1

\* whether two coordinates round to the same numbers, component by component
SameRounded(c, d) ==
    /\ FloatValue(Round2(c[1])) = FloatValue(Round2(d[1]))
    /\ FloatValue(Round2(c[2])) = FloatValue(Round2(d[2]))

\* C4: a record set with one coordinate is what get returns for any
\* coordinate that rounds, component by component, to the same 2-decimal
\* numbers.
C4_SameRoundedSameEntry ==
    [][\A s \in Stores, c \in Coords :
          ( SameRounded(s[1], c) /\ DirectSet(s[1], s[2]) )
          => Lookup(c)' = Some(s[2])]_vars

\* C5: an insertion that still stands (not overwritten, not evicted for
\* size, not cleared) is what get returns for its key while less than ttl
\* has passed since it, and its key is absent from then on, the instant
\* ttl after it included.
C5_TtlExpiry ==
    \A i \in 1..Len(standing) :
        LookupKey(standing[i].key) =
            IF now - standing[i].at < Ttl
                THEN Some(standing[i].value)
                ELSE None

\* exactly ttl after its insertion an entry that was hit before is absent
C5_Witness ==
    \E i \in 1..Len(standing) :
        /\ now - standing[i].at = Ttl
        /\ HasLink(links, standing[i].key)
        /\ cache_hits = 1 /\ cache_misses = 1
        /\ last = [ev |-> "get", ret |-> None]

\* the insertions whose time is not up, earliest first
LiveStanding == SelectSeq(standing, LAMBDA h : now - h.at < Ttl)

\* the keys of the unexpired entries, least recently set or hit first
LiveRecent == SelectSeq(recent, LAMBDA k : Contains(links, k, now))

\* a set of a new key into a cache that holds max-size unexpired entries
FullSet(c, v) ==
    /\ size = MaxSize
    /\ ~Contains(links, KeyOf(c), now)
    /\ DirectSet(c, v)

\* C6 as stated: after any gets and sets, a set of a new key into a cache
\* that holds max-size unexpired entries leaves max-size entries and removes
\* the entry inserted earliest among those present.
C6_OldestEvicted ==
    [][\A s \in Stores :
          FullSet(s[1], s[2])
          => /\ size' = MaxSize
             /\ last'.pushed = {LiveStanding[1].key}]_vars

\* C6: a set of a new key into a cache that holds max-size unexpired entries
\* leaves max-size entries, the new one among them, and removes exactly one
\* entry: the least recently used one, the one whose last set or hit by a
\* get is the earliest among those present.  That is the entry inserted
\* earliest when the present entries were last used in the order of their
\* insertion, as they were when no get hit any of them.
C6_LeastRecentlyUsedEvicted ==
    [][\A s \in Stores :
          FullSet(s[1], s[2])
          => /\ size' = MaxSize
             /\ cache_size_gauge' = MaxSize
             /\ Lookup(s[1])' = Some(s[2])
             /\ last'.pushed = {LiveRecent[1]}
             /\ \A i \in 2..MaxSize : Contains(links', LiveRecent[i], now)
             /\ [i \in 1..MaxSize |-> LiveStanding[i].key] = LiveRecent
                => last'.pushed = {LiveStanding[1].key}]_vars

\* a set into a full cache of unexpired entries has just pushed one out, and
\* the entry inserted first, hit by a get since, is still there
C6_Witness ==
    /\ last.ev = "set" /\ last.pushed # {}
    /\ now < Ttl
    /\ cache_hits = 1
    /\ size = MaxSize /\ Len(standing) = MaxSize
    /\ standing[1].at = 0 /\ standing[MaxSize].at = now
    /\ LookupKey(standing[1].key) = Some(standing[1].value)

\* C7: clear leaves a cache of size 0, gauge included, in which get is
\* absent for every coordinate, whatever it held, and the cache stays so
\* until the next set; a clear that follows a clear changes nothing of the
\* cache or its counters.
C7_ClearEmpties ==
    [][/\ Clear
          => /\ size' = 0 /\ cache_size_gauge' = 0 /\ links' = <<>>
             /\ \A c \in Coords : Lookup(c)' = None
             /\ UNCHANGED <<cache_hits, cache_misses>>
       /\ last'.ev = "clear"
          => /\ size' = 0
             /\ \A c \in Coords : Lookup(c)' = None
       /\ (last.ev = "clear" /\ Clear) => UNCHANGED cacheVars]_vars

\* a clear has just emptied a full cache of unexpired entries, one of them
\* hit before
C7_Witness ==
    /\ last = [ev |-> "clear", held |-> MaxSize]
    /\ cache_hits = 1
    /\ now < Ttl
    /\ size = 0
    /\ \A c \in Coords : Lookup(c) = None

\* the insertions for a coordinate's key whose time is not up
LiveFor(c) ==
    { i \in 1..Len(standing) :
          standing[i].key = KeyOf(c) /\ now - standing[i].at < Ttl }

\* C8: a get raises exactly one of the hit and the miss counter, by one:
\* the hit counter, returning the stored record, when an insertion for the
\* key stands and is less than ttl old; the miss counter, returning absent,
\* when the entry's time is up or the key was never set.  After the get,
\* size counts the unexpired insertions only.
C8_GetCountsOnce ==
    [][\A c \in Coords :
          DirectGet(c)
          => /\ LiveFor(c) # {}
                => /\ cache_hits' = cache_hits + 1
                   /\ cache_misses' = cache_misses
                   /\ \E i \in LiveFor(c) :
                          last'.ret = Some(standing[i].value)
             /\ LiveFor(c) = {}
                => /\ cache_hits' = cache_hits
                   /\ cache_misses' = cache_misses + 1
                   /\ last'.ret = None
             /\ size' = Len(LiveStanding)
             /\ ~Contains(links', KeyOf(c), now) <=> LiveFor(c) = {}]_vars

\* a get has just missed on an entry that was hit before and whose time is
\* up since: it is still linked, and size does not count it
C8_Witness ==
    /\ last = [ev |-> "get", ret |-> None]
    /\ cache_hits = 1 /\ cache_misses = 1
    /\ Len(links) = 1 /\ size = 0
    /\ now - standing[1].at > Ttl

\* the class of the exception a finished call raised, "" when it returned
Raised(t) == IF task[t].out.ok THEN "" ELSE task[t].out.error.cls

\* C9: the client classifies a failed request by its cause.  A request that
\* timed out raises OpenMeteoTimeoutError and nothing else does; an answer
\* whose status is not 200 raises OpenMeteoAPIError with that status code,
\* whatever its body, a well-formed payload included, and nothing else does;
\* a transport failure that is not a timeout raises the client's transport
\* error, OpenMeteoError "request failed".
C9_FailureByCause ==
    \A t \in Tasks :
        Done(t) =>
            /\ task[t].resp.kind = "timeout"
                   <=> Raised(t) = "OpenMeteoTimeoutError"
            /\ (task[t].resp.kind = "http" /\ task[t].resp.status_code # 200)
                   <=> Raised(t) = "OpenMeteoAPIError"
            /\ Raised(t) = "OpenMeteoAPIError"
                   => /\ task[t].out.error.status_code = task[t].resp.status_code
                      /\ task[t].out.error.text = task[t].resp.body
            /\ task[t].resp.kind = "transport"
                   => task[t].out =
                          Raise(OpenMeteoError("Open-Meteo API request failed"))

\* one call answered 500 with a well-formed payload, one timed out
C9_Witness ==
    \E t1, t2 \in Tasks :
        /\ Done(t1) /\ Done(t2)
        /\ task[t1].resp = Http(500, JsonBody(GoodPayload))
        /\ Raised(t1) = "OpenMeteoAPIError"
        /\ task[t1].out.error.status_code = 500
        /\ task[t2].resp = TimedOut
        /\ Raised(t2) = "OpenMeteoTimeoutError"

\* whether a payload has every part _parse_response looks for
HasAllParts(d) ==
    /\ {"latitude", "longitude", "current"} \subseteq DOMAIN d
    /\ d.current # JNull
    /\ {"temperature_2m", "wind_speed_10m"} \subseteq DOMAIN d.current

\* the message for the first part a payload lacks: coordinates, then the
\* current section, then the weather fields
FirstMissing(d) ==
    IF ~({"latitude", "longitude"} \subseteq DOMAIN d)
        THEN "Missing required coordinate fields in response"
    ELSE IF ~("current" \in DOMAIN d) \/ d.current = JNull
        THEN "Missing 'current' field in response"
    ELSE "Missing required weather data in 'current' field"

\* C10: for an answer with status 200 whose body is a JSON object, the
\* parse succeeds exactly when the payload has latitude, longitude, a
\* current object and temperature_2m and wind_speed_10m inside it, and then
\* returns the payload's own four values; otherwise it raises the client's
\* parse error, OpenMeteoError, naming the first missing part.  No missing
\* field gets a value.
C10_ParseAllOrNothing ==
    \A t \in Tasks :
        ( /\ Done(t)
          /\ task[t].resp.kind = "http"
          /\ task[t].resp.status_code = 200
          /\ IsJson(task[t].resp.body) )
        => LET d == task[t].resp.body.json
               out == task[t].out
           IN  /\ out.ok <=> HasAllParts(d)
               /\ out.ok
                  => out.value = [latitude |-> d.latitude,
                                  longitude |-> d.longitude,
                                  temperature_c |-> d.current.temperature_2m,
                                  wind_speed_kmh |-> d.current.wind_speed_10m]
               /\ ~out.ok => out.error = OpenMeteoError(FirstMissing(d))

\* one payload with an empty current object, one without current
C10_Witness ==
    \E t1, t2 \in Tasks :
        /\ Done(t1) /\ Done(t2)
        /\ task[t1].resp.kind = "http" /\ task[t1].resp.status_code = 200
        /\ task[t1].resp.body =
               JsonBody([GoodPayload EXCEPT !.current = Restrict(GoodCurrent, {})])
        /\ task[t1].out.error.msg =
               "Missing required weather data in 'current' field"
        /\ task[t2].resp =
               Http(200, JsonBody(Restrict(GoodPayload, {"latitude", "longitude"})))
        /\ task[t2].out.error.msg = "Missing 'current' field in response"

\* whether a finished call got status 200 from the upstream
Answered200(t) ==
    /\ Done(t) /\ ~task[t].hit
    /\ task[t].resp.kind = "http" /\ task[t].resp.status_code = 200

\* C11: for an answer with status 200, whatever its body, get_weather either
\* returns a record or fails with the client's parse error, OpenMeteoError
\* raised with a "Missing ..." message; it never fails with anything else.
C11_ParseErrorOrRecord ==
    \A t \in Tasks :
        Answered200(t) =>
            \/ task[t].out.ok
            \/ /\ task[t].out.error.cls = "OpenMeteoError"
               /\ task[t].out.error = OpenMeteoError(FirstMissing(task[t].resp.body.json))

\* what made the fetch of a finished call fail: "" when it did not fail for
\* one of the four causes
Cause(t) ==
    IF task[t].hit \/ task[t].resp.kind = "none" THEN ""
    ELSE IF task[t].resp.kind = "timeout" THEN "timeout"
    ELSE IF task[t].resp.kind = "transport" THEN "transport"
    ELSE IF task[t].resp.status_code # 200 THEN "status"
    ELSE IF IsJson(task[t].resp.body) /\ ~HasAllParts(task[t].resp.body.json)
        THEN "parse"
    ELSE ""

\* C12: the endpoint answers a call that failed on a timeout with 504 and
\* code UPSTREAM_TIMEOUT, and a call that failed on a status other than 200,
\* on a transport failure or on a payload with missing parts with 502 and
\* code UPSTREAM_ERROR; nothing but a timeout is answered 504.
C12_StatusByKind ==
    \A t \in Tasks :
        Done(t) =>
            /\ Cause(t) = "timeout"
                  => /\ Reply(t).status_code = 504
                     /\ Reply(t).code = "UPSTREAM_TIMEOUT"
            /\ Cause(t) \in {"status", "transport", "parse"}
                  => /\ Reply(t).status_code = 502
                     /\ Reply(t).code = "UPSTREAM_ERROR"
            /\ Reply(t).status_code = 504 => Cause(t) = "timeout"

\* one request answered 504 after a timeout, one answered 502 after a
\* payload without its current section
C12_Witness ==
    \E t1, t2 \in Tasks :
        /\ Done(t1) /\ Cause(t1) = "timeout" /\ Reply(t1).status_code = 504
        /\ Done(t2) /\ Cause(t2) = "parse" /\ Reply(t2).status_code = 502
        /\ Reply(t2).code = "UPSTREAM_ERROR"

OutcomeLabel(out) ==
    IF out.ok THEN "success"
    ELSE IF out.error.cls = "OpenMeteoTimeoutError" THEN "timeout"
    ELSE "error"

\* C14: a fetch raises the upstream-request counter by one under the label
\* that matches what the call ended in (success for a record, timeout for a
\* timeout, error for any other failure), leaves the other labels alone, and
\* records one latency observation.
C14_CountedByOutcome ==
    [][\A t \in Tasks, r \in Responses :
          FetchReturn(t, r)
          => /\ upstream_requests' =
                    [upstream_requests EXCEPT ![OutcomeLabel(task'[t].out)] = @ + 1]
             /\ upstream_duration' = upstream_duration + 1]_vars

\* C15: right after a set the cache-size gauge is the entry count size
\* reports, also when the set overwrote a key, pushed an entry out or found
\* expired entries; right after a clear the gauge is zero, as is size.
C15_GaugeIsSize ==
    [][/\ \A s \in Stores :
             DirectSet(s[1], s[2])
             => /\ cache_size_gauge' = size'
                /\ cache_size_gauge' = Len(LiveStanding')
       /\ Clear => cache_size_gauge' = 0 /\ size' = 0]_vars

\* a set has just pushed an entry out of a full cache after time passed, no
\* get having hit: the gauge shows max-size
C15_Witness ==
    /\ last.ev = "set" /\ last.pushed # {}
    /\ cache_hits = 0 /\ now > 0
    /\ cache_size_gauge = MaxSize /\ size = MaxSize

\* C16: there is no request coalescing.  A get_weather call that finds no
\* unexpired entry for its key sends its own request to the upstream, also
\* while another call for the same key is waiting for its answer; and every
\* call whose fetch gave a record stores that record, which is then what
\* the cache holds for the key.
C16_NoCoalescing ==
    [][\A t \in Tasks :
          /\ \A c \in Places :
                ( GetWeatherCall(t, c) /\ ~Contains(links, KeyOf(c), now) )
                => /\ task'[t].pc = "await" /\ task'[t].reqs = 1
                   /\ upstream_calls' = upstream_calls + 1
          /\ \A r \in Upstream :
                ( GetWeatherResume(t, r) /\ task'[t].out.ok )
                => /\ Lookup(task[t].arg)' = Some(task'[t].out.value)
                   /\ standing'[Len(standing')] =
                          [key |-> KeyOf(task[t].arg),
                           value |-> task'[t].out.value, at |-> now]]_vars

\* two calls for one coordinate both missed before either stored, both sent
\* a request, and each stored a record of its own
C16_Witness ==
    \E t1, t2 \in Tasks :
        /\ t1 # t2 /\ Done(t1) /\ Done(t2)
        /\ ~task[t1].hit /\ ~task[t2].hit
        /\ task[t1].arg = task[t2].arg
        /\ task[t1].out.ok /\ task[t2].out.ok
        /\ task[t1].out # task[t2].out
        /\ now < Ttl
        /\ upstream_calls = 2 /\ cache_misses = 2
        /\ Lookup(task[t2].arg) = Some(task[t2].out.value)

\* the entries, their count and their expiry data agree: one link per key,
\* at most max-size links, and every link is a whole record that a set
\* stored under its key, expiring ttl after that set
Consistent ==
    /\ \A i, j \in 1..Len(links) : links[i].key = links[j].key => i = j
    /\ Len(links) <= MaxSize
    /\ size <= Len(links)
    /\ \A i \in 1..Len(links) :
          /\ DOMAIN links[i].value = DOMAIN Berlin
          /\ \E j \in 1..Len(standing) :
                /\ standing[j].key = links[i].key
                /\ standing[j].value = links[i].value
                /\ links[i].expires = standing[j].at + Ttl

\* C17: under every interleaving of the request tasks, each step a task
\* takes on the cache leaves it consistent, and a lookup that hits returns a
\* whole record that a set stored under the key looked up.
C17_AtomicCacheOps ==
    [][/\ Consistent'
       /\ \A t \in Tasks, c \in Places :
             ( GetWeatherCall(t, c) /\ task'[t].hit )
             => \E j \in 1..Len(standing) :
                   /\ standing[j].key = KeyOf(c)
                   /\ standing[j].value = task'[t].out.value
                   /\ DOMAIN task'[t].out.value = DOMAIN Berlin]_vars

\* two calls with different coordinates of one key, in flight together, have
\* both stored: the cache holds one entry, the later one's
C17_Witness ==
    \E t1, t2 \in Tasks :
        /\ Done(t1) /\ Done(t2)
        /\ ~task[t1].hit /\ ~task[t2].hit
        /\ task[t1].out.ok /\ task[t2].out.ok
        /\ task[t1].arg # task[t2].arg
        /\ KeyOf(task[t1].arg) = KeyOf(task[t2].arg)
        /\ now < Ttl
        /\ Len(links) = 1 /\ Consistent
        /\ links[1].value = task[t2].out.value
        /\ task[t1].out.value.retrievedAt < task[t2].out.value.retrievedAt

\* the coordinate in the upstream's answer
UpstreamCoord(r) == <<r.body.json.latitude.num, r.body.json.longitude.num>>

\* C18: a call that missed and got a valid answer stores its record under
\* the key of the coordinate it was called with, the record's location
\* being the coordinate the upstream returned; nothing is stored under the
\* key of that coordinate when it differs.  A call made with a coordinate
\* of a key that has a standing insertion less than ttl old hits and returns
\* that record.
C18_StoredUnderRequestKey ==
    [][\A t \in Tasks :
          /\ \A r \in Upstream :
                ( GetWeatherResume(t, r) /\ task'[t].out.ok )
                => /\ Lookup(task[t].arg)' = Some(task'[t].out.value)
                   /\ task'[t].out.value.location = UpstreamCoord(r)
                   /\ KeyOf(UpstreamCoord(r)) # KeyOf(task[t].arg)
                         => Lookup(UpstreamCoord(r))' = Lookup(UpstreamCoord(r))
          /\ \A c \in Places :
                ( GetWeatherCall(t, c) /\ LiveFor(c) # {} )
                => /\ task'[t].hit
                   /\ upstream_calls' = upstream_calls
                   /\ \E j \in LiveFor(c) :
                          task'[t].out = Ok(standing[j].value)]_vars

\* the upstream answered for a grid point of another key; the record is
\* cached under the request's key only, and a later call there hit
C18_Witness ==
    \E t1, t2 \in Tasks :
        /\ Done(t1) /\ ~task[t1].hit /\ task[t1].out.ok
        /\ task[t1].out.value.location = <<525000, 134000>>
        /\ KeyOf(task[t1].out.value.location) # KeyOf(task[t1].arg)
        /\ Lookup(task[t1].out.value.location) = None
        /\ Done(t2) /\ task[t2].hit /\ task[t2].arg = task[t1].arg
        /\ task[t2].out = task[t1].out
        /\ upstream_calls = 1 /\ cache_hits = 1

\* C19: two calls that failed for different causes among timeout, status
\* other than 200, transport failure and payload with missing parts ended
\* with errors of different kinds.
C19_FourKinds ==
    \A t1, t2 \in Tasks :
        ( /\ Done(t1) /\ Done(t2)
          /\ Cause(t1) # "" /\ Cause(t2) # ""
          /\ Cause(t1) # Cause(t2) )
        => Raised(t1) # Raised(t2)

C21_LastWriteWins ==
    last.ev = "stored" =>
        \E key \in {KeyOf(task[last.t].arg)} :
            /\ Cardinality({i \in 1..Len(links) : links[i].key = key}) = 1
            /\ LinkOf(links, key).value = task[last.t].out.value
            /\ LinkOf(links, key).expires =
                   task[last.t].out.value.retrievedAt + Ttl
            /\ \A u \in Tasks :
                  ( /\ Done(u) /\ ~task[u].hit /\ task[u].out.ok
                    /\ KeyOf(task[u].arg) = key
                    /\ task[u].out # task[last.t].out )
                  => \A i \in 1..Len(links) :
                        links[i].key = key
                        => links[i].value # task[u].out.value

\* two calls in flight together wrote one key at different times: the cache
\* holds the later record, with the later expiry
C21_Witness ==
    \E t1, t2 \in Tasks :
        /\ last = [ev |-> "stored", t |-> t2, arg |-> task[t2].arg]
        /\ Done(t1) /\ ~task[t1].hit /\ task[t1].out.ok
        /\ Done(t2) /\ ~task[t2].hit /\ task[t2].out.ok
        /\ KeyOf(task[t1].arg) = KeyOf(task[t2].arg)
        /\ task[t1].out.value.retrievedAt = 0
        /\ task[t2].out.value.retrievedAt = 1
        /\ now = 1
        /\ links[1].expires = 1 + Ttl
        /\ links[1].value = task[t2].out.value

\* C22: get_cache_service creates at most one CacheService, and every
\* request that resolved its dependency is served by that one instance.
C22_OneCacheService ==
    /\ created <= 1
    /\ \A w1, w2 \in Workers :
          ( dep[w1].pc = "served" /\ dep[w2].pc = "served" )
          => dep[w1].got = dep[w2].got

\* C23: while a call u is suspended at its upstream request, any other task
\* t can take every step of a call of its own: it can start a call for any
\* coordinate, a call for a cached coordinate returns its hit in that one
\* step without sending a request, a call that missed can take the answer to
\* its own request and finish, and none of these steps touches u.
C23_OthersNotBlocked ==
    [][\A u, t \in Tasks :
          ( u # t /\ task[u].pc = "await" )
          => /\ ( task[t].pc \in {"idle", "done"}
                  /\ cache_hits + cache_misses < MaxGets )
                => \A c \in Places : ENABLED GetWeatherCall(t, c)
             /\ task[t].pc = "await"
                => \A r \in Upstream : ENABLED GetWeatherResume(t, r)
             /\ \A c \in Places :
                   GetWeatherCall(t, c)
                   => /\ task'[u] = task[u]
                      /\ Contains(links, KeyOf(c), now)
                            => /\ task'[t].pc = "done"
                               /\ task'[t].out = Ok(LinkOf(links, KeyOf(c)).value)
                               /\ upstream_calls' = upstream_calls
             /\ \A r \in Upstream :
                   GetWeatherResume(t, r)
                   => /\ task'[t].pc = "done"
                      /\ task'[u] = task[u]]_vars

\* one call is waiting for the upstream; after it started waiting another
\* call, for a cached coordinate, returned its hit
C23_Witness ==
    \E u, t \in Tasks :
        /\ task[u].pc = "await" /\ u \in conns
        /\ Done(t) /\ task[t].hit /\ task[t].out = Ok(Berlin)
        /\ last = [ev |-> "hit", t |-> t, arg |-> task[t].arg]
        /\ upstream_calls = 1

\* C24: cancelling a task whose fetch is in flight ends its call with the
\* cancellation, closes the client opened for that call, writes nothing to
\* the cache and sends no further request; and whatever way a call ends, a
\* record, an error or a cancellation, no client of a call that is not
\* waiting for the upstream is open.
C24_NoLeakedConnection ==
    [][/\ \A t \in Tasks :
             Cancel(t)
             => /\ t \in conns /\ ~(t \in conns')
                /\ task'[t].pc = "done"
                /\ task'[t].out = Raise(CancelledError)
                /\ task'[t].reqs = 1
                /\ upstream_calls' = upstream_calls
                /\ UNCHANGED cacheVars
       /\ conns' = {t \in Tasks : task'[t].pc = "await"}]_vars

\* one call was cancelled in flight and left nothing: no entry, no open
\* client; another call, for the same coordinate, is in flight
C24_Witness ==
    \E t1, t2 \in Tasks :
        /\ Done(t1) /\ task[t1].out = Raise(CancelledError)
        /\ task[t2].pc = "await" /\ task[t2].arg = task[t1].arg
        /\ conns = {t2}
        /\ links = <<>>
        /\ upstream_calls = 2 /\ upstream_duration = 1
        /\ upstream_requests = [l \in {"success", "error", "timeout"} |-> 0]

\* C25: every get_weather call that waits for the upstream eventually ends,
\* with a record or an error.
C25_EveryCallTerminates ==
    \A t \in Tasks : (task[t].pc = "await") ~> Done(t)

\* C26: in every reachable state, after any sets, gets, clears and clock
\* advances, the number of entries the cache holds as size reports it is
\* between 0 and the maximum size; so is the number of entries it stores,
\* those whose time is up included, and so is the size gauge.
C26_SizeWithinMax ==
    /\ size \in 0..MaxSize
    /\ Len(links) \in 0..MaxSize
    /\ cache_size_gauge \in 0..MaxSize

\* the cache is full, after clock advances and a hit, and a set of one more
\* key has just pushed an entry out to stay within the maximum size
C26_Witness ==
    /\ size = MaxSize /\ Len(links) = MaxSize
    /\ last.ev = "set" /\ last.pushed # {}
    /\ now > 0 /\ cache_hits > 0

\* C27: a cache hit, through CacheService.get or through get_weather, writes
\* nothing: the entries, their records and their expiry instants are what
\* they were, as are the size and its gauge.  An entry's expiry instant is
\* its insertion time plus ttl whatever hit it since, so it is absent from
\* then on, and the expiry instant of a key changes only by a set of that
\* key, which makes it the current instant plus ttl.
C27_HitWritesNothing ==
    [][/\ cache_hits' = cache_hits + 1
          => /\ Entries(links') = Entries(links)
             /\ standing' = standing
             /\ size' = size
             /\ cache_size_gauge' = cache_size_gauge
       /\ \A e \in Entries(links') :
             /\ \E i \in 1..Len(standing') :
                   /\ standing'[i].key = e.key
                   /\ standing'[i].value = e.value
                   /\ e.expires = standing'[i].at + Ttl
             /\ now' >= e.expires
                => ~Contains(links', e.key, now')
             /\ ( HasLink(links, e.key)
                  /\ LinkOf(links, e.key).expires # e.expires )
                => /\ last'.ev \in {"set", "stored"}
                   /\ cache_hits' = cache_hits
                   /\ e = links'[Len(links')]
                   /\ e.expires = now + Ttl]_vars

\* an entry set at instant 0 was hit by a direct get and then by a
\* get_weather call; at instant ttl it is still stored with the expiry it
\* was given at its insertion, and absent
C27_Witness ==
    \E t \in Tasks :
        /\ Done(t) /\ task[t].hit /\ task[t].out = Ok(Berlin)
        /\ last = [ev |-> "hit", t |-> t, arg |-> task[t].arg]
        /\ cache_hits = 2 /\ cache_misses = 0
        /\ standing = <<[key |-> KeyOf(task[t].arg), value |-> Berlin, at |-> 0]>>
        /\ Len(links) = 1 /\ links[1].expires = Ttl
        /\ now = Ttl
        /\ Lookup(task[t].arg) = None

\* C28: a set on a key that has an unexpired entry, by the same coordinate
\* or by one that rounds to the same key, replaces the record and restarts
\* the entry's time to live from the current instant; the number of entries
\* stays what it was and every other unexpired entry stays as it is, also
\* when the cache is at its maximum size.
C28_OverwriteKeepsCount ==
    [][\A s \in Puts :
          ( Contains(links, KeyOf(s[1]), now) /\ Put(s[1], s[2]) )
          => /\ size' = size
             /\ cache_size_gauge' = size
             /\ last'.over /\ last'.pushed = {}
             /\ LinkOf(links', KeyOf(s[1])) =
                   [key |-> KeyOf(s[1]), value |-> s[2], expires |-> now + Ttl]
             /\ \A c \in Coords :
                   KeyOf(c) = KeyOf(s[1]) => Lookup(c)' = Some(s[2])
             /\ \A e \in Entries(links) :
                   ( Unexpired(e, now) /\ e.key # KeyOf(s[1]) )
                   => e \in Entries(links')]_vars

\* a full cache of unexpired entries after a set that overwrote one of them
\* at a later instant than its insertion: the other entry, inserted at
\* instant 0, is still there and nothing was pushed out
C28_Witness ==
    /\ last = [ev |-> "put", over |-> TRUE, dropped |-> 0, pushed |-> {}]
    /\ size = MaxSize /\ Len(standing) = MaxSize
    /\ now > 0 /\ now < Ttl
    /\ standing[1].at = 0 /\ standing[MaxSize].at = now
    /\ LookupKey(standing[1].key) = Some(standing[1].value)
    /\ LookupKey(standing[MaxSize].key) = Some(London)

\* C29: when a set inserts a new key into a cache whose stored entries
\* number max-size and at least one of them has its time up, the entries
\* whose time is up are removed and no unexpired entry is: every entry that
\* was unexpired before the set is there after it as it was, and get
\* returns its record.
C29_ExpiredGoFirst ==
    [][\A s \in Puts :
          ( /\ Len(links) = MaxSize /\ size < MaxSize
            /\ ~HasLink(links, KeyOf(s[1]))
            /\ Put(s[1], s[2]) )
          => /\ last'.pushed = {}
             /\ last'.dropped = MaxSize - size
             /\ \A e \in Entries(links) :
                   IF Unexpired(e, now)
                       THEN /\ e \in Entries(links')
                            /\ LookupKey(e.key)' = Some(e.value)
                       ELSE ~HasLink(links', e.key)
             /\ size' = size + 1
             /\ Lookup(s[1])' = Some(s[2])]_vars

\* a set of a new key has just found max-size stored entries, one of them
\* with its time up and one, hit since the other was set, unexpired: the
\* former is gone, the latter is still there, first in the use order
C29_Witness ==
    /\ last = [ev |-> "put", over |-> FALSE, dropped |-> 1, pushed |-> {}]
    /\ MaxSize > 1 /\ size = MaxSize
    /\ cache_hits > 0
    /\ standing[1].at < now /\ standing[MaxSize].at = now
    /\ links[1].key = standing[1].key
    /\ LookupKey(standing[1].key) = Some(standing[1].value)

\* C30: the entry evicted is chosen by recency of use, not of insertion.  A
\* get that hits an entry is a use of it, as a set is: when the next thing
\* done to the cache is a set of a new key into max-size unexpired entries,
\* the entry just hit stays, also when it was inserted first, and the one
\* entry evicted is the least recently set or hit of the others.
C30_HitEntrySurvives ==
    [][\A s \in Puts :
          ( /\ last.ev = "get" /\ last.ret # None
            /\ size = MaxSize
            /\ ~Contains(links, KeyOf(s[1]), now)
            /\ Put(s[1], s[2]) )
          => /\ links[Len(links)].value = last.ret[1]
             /\ links[Len(links)].key = recent[Len(recent)]
             /\ links[Len(links)] \in Entries(links')
             /\ last'.pushed = {LinkOf(links, LiveRecent[1])}
             /\ LiveRecent[1] # links[Len(links)].key
             /\ \A e \in Entries(links) :
                   e.key # LiveRecent[1] => e \in Entries(links')
             /\ Lookup(s[1])' = Some(s[2])]_vars

\* set A, set B, get A, set C with max size 2: the entry inserted first, A,
\* is present with the new one, and B, inserted after A, was evicted
C30_Witness ==
    /\ last.ev = "put" /\ ~last.over /\ last.dropped = 0
    /\ cache_hits = 1 /\ cache_misses = 0
    /\ size = MaxSize /\ MaxSize = 2
    /\ [i \in 1..2 |-> links[i].key] = [i \in 1..2 |-> standing[i].key]
    /\ standing[2].at = now
    /\ \E e \in last.pushed :
          /\ last.pushed = {e}
          /\ ~HasLink(links, e.key)
          /\ e.expires > links[1].expires
    /\ LookupKey(links[1].key) = Some(links[1].value)

\* task t returns, in this step, from a miss with the record it fetched
ReturnsRecord(t) ==
    /\ task[t].pc = "await"
    /\ task'[t].pc = "done"
    /\ task'[t].out.ok

\* C31: with get_weather as the only writer, every entry the cache holds is
\* a record built from a successful, validated upstream response, under the
\* key of a coordinate requests ask for.  The cache is written once by each
\* call that returns from a miss with a record, with that record under the
\* key of the call's coordinate, and by nothing else: a call that starts
\* waiting, fails or is cancelled leaves the entries as they are.
C31_OnlyFetchedRecordsCached ==
    [][/\ \A e \in Entries(links') :
             \E r \in Upstream, c \in Places :
                /\ get_current_weather(r).ok
                /\ Outcome(r, e.expires - Ttl) = Ok(e.value)
                /\ KeyOf(c) = e.key
       /\ \A t \in Tasks :
             ReturnsRecord(t)
             => /\ get_current_weather(task'[t].resp).ok
                /\ task'[t].out = Outcome(task'[t].resp, now)
                /\ CacheService_set(task[t].arg, task'[t].out.value)
                /\ links'[Len(links')] =
                      [key |-> KeyOf(task[t].arg), value |-> task'[t].out.value,
                       expires |-> now + Ttl]
                /\ \A u \in Tasks \ {t} : task'[u] = task[u]
       /\ ( \A t \in Tasks : ~ReturnsRecord(t) )
          => /\ Entries(links') = Entries(links)
             /\ UNCHANGED <<standing, cache_size_gauge>>]_vars

\* one call was cancelled in flight and one returned the record it fetched:
\* the cache holds that record, under the key of that call's coordinate, and
\* nothing else
C31_Witness ==
    \E t1, t2 \in Tasks :
        /\ Done(t1) /\ task[t1].out = Raise(CancelledError)
        /\ Done(t2) /\ task[t2].out.ok /\ ~task[t2].hit
        /\ upstream_calls = 2
        /\ upstream_requests = [success |-> 1, error |-> 0, timeout |-> 0]
        /\ Len(links) = 1
        /\ links[1].key = KeyOf(task[t2].arg)
        /\ links[1].value = task[t2].out.value
        /\ Len(standing) = 1

====
